---- MODULE Spec2Model ----
(***************************************************************************)
(* Model of src/src/utils/batch_processor.py: BatchProcessor.process_batch *)
(* with its ThreadPoolExecutor workers, the cancel/pause/resume controls,  *)
(* the memory check and the progress (checkpoint) file.                    *)
(*                                                                         *)
(* One coordinating thread runs process_batch; its position is pc.  The    *)
(* pool's workers take queued tasks in submission order.  cancel(),        *)
(* pause(), resume() and get_progress() are called from other threads at   *)
(* any moment.  A crash of the process keeps only the progress file.       *)
(*                                                                         *)
(* Two further components have their own variables and specifications:     *)
(* the ShutdownHandler of src/src/utils/shutdown_handler.py and the       *)
(* FileLock of src/src/utils/file_lock.py.                                *)
(***************************************************************************)
EXTENDS Integers, Sequences, FiniteSets, TLC

\* ---------------------------------------------------------------- bounds
MaxItems == 2
MaxRuns == 2
MaxCallbacks == 2
MaxSignals == 2
NumLocks == 2
MaxInodes == 2

\* ------------------------------------------------------- program constants
BATCH_MAX_CONCURRENT == 4
BATCH_MEMORY_LIMIT_MB == 2000
BATCH_CHECKPOINT_INTERVAL == 10

\* Constructor arguments tried (0 stands for None / not given).
MaxWorkersArgs == {1, 2}
MemoryLimitArgs == {1000}
CheckpointIntervalArgs == {1, 2}

\* A reading that raises (psutil.Process().memory_info() fails).
SampleFail == 0 - 1

\* The longest batch of the model: long enough for completed to run past a
\* periodic checkpoint.
LongBatch == MaxItems + 1

Indices == 0 .. (LongBatch - 1)

VARIABLES
    max_workers,          \* self.max_workers
    memory_limit_mb,      \* self.memory_limit_mb
    checkpoint_interval,  \* self.checkpoint_interval
    has_psutil,           \* HAS_PSUTIL
    items,                \* len(items): the callers pass the same list each time
    failing,              \* indices of the items on which process_func raises
    progress,             \* self.progress (BatchProgress)
    cancelled,            \* self._cancelled
    pause_event,          \* self._pause_event (TRUE = set = gate open)
    file,                 \* the progress file on disk
    clock,                \* number of datetime.now() calls so far
    run,                  \* number of process_batch calls started so far
    resume,               \* the resume argument of the current call
    pc,                   \* position of the coordinating thread
    task,                 \* state of the future of each item
    calls,                \* invocations of process_func per item, this call
    cur,                  \* item_index of the future being processed
    yielded,              \* futures as_completed has already yielded
    results,              \* the local list results
    memory_mb,            \* local memory_mb of _check_memory (0 outside it)
    save_ret,             \* where _save_progress returns to
    ret,                  \* the dictionary process_batch returned
    cancelReq,            \* history: when cancel() was called in this call
    memFail,              \* history: _check_memory has just ended on an exception
    loaded,               \* history: what _load_progress found in this call
    saveFailed,           \* history: a _save_progress of this call has failed
    pauseHeld,            \* history: pause() was called and resume() not yet
    finalSaved,           \* history: the save of line 254 of this call succeeded
    interrupted,          \* history: the process died in the call before this
                          \* one, and the items the progress file then counted
                          \* (index below its completed) whose process_func
                          \* had not finished
    sh_callbacks,         \* ShutdownHandler._cleanup_callbacks
    sh_in_progress,       \* ShutdownHandler._shutdown_in_progress
    sh_lock,              \* the thread that holds ShutdownHandler._lock
    sh_stack,             \* per thread, the calls of the handler in progress
    sh_phase,             \* the main thread: running, exiting or exited
    sh_invoked,           \* history: the callbacks invoked, in order
    sh_signals,           \* history: signals delivered so far
    sh_first,             \* history: callbacks registered at the first trigger
    fl_path,              \* the inode that lock_file_path names (0: no such file)
    fl_inodes,            \* lock files created so far
    fl_holder,            \* per inode, the FileLock whose descriptor holds the flock
    fl_fd,                \* per FileLock, the inode of self.lock_file (0: none)
    fl_locked,            \* per FileLock, self.is_locked
    fl_pc                 \* per FileLock, its position in acquire or release

vars == << max_workers, memory_limit_mb, checkpoint_interval, has_psutil,
           items, failing, progress, cancelled, pause_event, file, clock, run,
           resume, pc, task, calls, cur, yielded, results, memory_mb,
           save_ret, ret, cancelReq, memFail, loaded, saveFailed, pauseHeld,
           finalSaved, interrupted, sh_callbacks, sh_in_progress, sh_lock, sh_stack,
           sh_phase, sh_invoked, sh_signals, sh_first, fl_path, fl_inodes,
           fl_holder, fl_fd, fl_locked, fl_pc >>

lockVars == << fl_path, fl_inodes, fl_holder, fl_fd, fl_locked, fl_pc >>

batchVars == << max_workers, memory_limit_mb, checkpoint_interval, has_psutil,
                items, failing, progress, cancelled, pause_event, file, clock,
                run, resume, pc, task, calls, cur, yielded, results,
                memory_mb, save_ret, ret, cancelReq, memFail, loaded,
                saveFailed, pauseHeld, finalSaved, interrupted >>

shutdownVars == << sh_callbacks, sh_in_progress, sh_lock, sh_stack, sh_phase,
                   sh_invoked, sh_signals, sh_first >>

config == << max_workers, memory_limit_mb, checkpoint_interval, has_psutil,
            items, failing >>

\* -------------------------------------------------------------- data types
\* BatchStatus
PENDING == "pending"
RUNNING == "running"
PAUSED == "paused"
COMPLETED == "completed"
CANCELLED == "cancelled"
FAILED == "failed"

\* BatchProgress(): the dataclass defaults (0 stands for None in the times).
BatchProgress ==
    [ total |-> 0, completed |-> 0, success |-> 0, failed |-> 0, skipped |-> 0,
      start_time |-> 0, end_time |-> 0, status |-> PENDING,
      failed_items |-> << >> ]

\* The argument is taken as given, 0 included.
OrDefaultKeepsZero(arg, default) == arg

\* `arg or DEFAULT` of __init__
OrDefault(arg, default) == IF arg = 0 THEN default ELSE arg

\* The progress file: exists, holds a JSON document (valid) of the fields
\* data, with or without further keys that BatchProgress does not have (extra).
NoFile == [ exists |-> FALSE, valid |-> FALSE, extra |-> FALSE,
            data |-> BatchProgress ]
\* No _load_progress in this call.
NotLoaded == [ tried |-> FALSE, ok |-> FALSE, data |-> BatchProgress ]
NoRet == [ results |-> << >>, progress |-> BatchProgress, success |-> FALSE ]
NoTasks == [ i \in Indices |-> "none" ]
NoCalls == [ i \in Indices |-> 0 ]

\* The futures submitted by the current call.
Submitted == { i \in Indices : task[i] # "none" }
Running == { i \in Indices : task[i] = "running" }
Finished == { i \in Indices : task[i] \in {"ok", "err"} }

Range(s) == { s[k] : k \in 1 .. Len(s) }

\* Memory readings in MB that psutil may report: below, at and above
\* 0.8 * limit, and above the limit.
MemSamples == { (memory_limit_mb * k) \div 10 : k \in {7, 8, 9, 11} }

\* The threads that may call a ShutdownHandler: signal handlers and atexit
\* hooks run in the main thread.
Threads == {"main", "other"}

\* ShutdownHandler.__init__, and nothing registered or triggered yet.
ShutdownIdle ==
    /\ sh_callbacks = << >>
    /\ sh_in_progress = FALSE
    /\ sh_lock = "free"
    /\ sh_stack = [ t \in Threads |-> << >> ]
    /\ sh_phase = "running"
    /\ sh_invoked = << >>
    /\ sh_signals = 0
    /\ sh_first = 0 - 1

\* The FileLock instances on one file path (shared = False), and the lock
\* files that may come to exist under lock_file_path.
Locks == 1 .. NumLocks
Inodes == 1 .. MaxInodes

\* FileLock.__init__ for every instance; no lock file yet.
LocksIdle ==
    /\ fl_path = 0
    /\ fl_inodes = 0
    /\ fl_holder = [ n \in Inodes |-> 0 ]
    /\ fl_fd = [ l \in Locks |-> 0 ]
    /\ fl_locked = [ l \in Locks |-> FALSE ]
    /\ fl_pc = [ l \in Locks |-> "idle" ]

NotInterrupted == [ was |-> FALSE, lost |-> {} ]

\* The progress file an earlier batch of n items left when it completed
\* without failures in an earlier process: started at time 1, ended at 2.
EarlierCheckpoint(n) ==
    [ exists |-> TRUE, valid |-> TRUE, extra |-> FALSE,
      data |-> [BatchProgress EXCEPT !.total = n, !.completed = n,
                                     !.success = n, !.start_time = 1,
                                     !.end_time = 2, !.status = COMPLETED] ]

\* A BatchProcessor constructed with a memory_limit_mb argument of limitArgs,
\* the batch it will be given (len(items) in counts), and the progress file
\* it finds: none, or (earlier) the one an earlier batch left.
InitOf(limitArgs, counts, earlier) ==
    /\ max_workers \in { OrDefault(a, BATCH_MAX_CONCURRENT) : a \in MaxWorkersArgs }
    /\ memory_limit_mb \in { OrDefault(a, BATCH_MEMORY_LIMIT_MB) : a \in limitArgs }
    /\ checkpoint_interval \in
          { OrDefault(a, BATCH_CHECKPOINT_INTERVAL) : a \in CheckpointIntervalArgs }
    /\ has_psutil \in BOOLEAN
    /\ items \in counts
    /\ failing \in SUBSET (0 .. (items - 1))
    /\ progress = BatchProgress
    /\ cancelled = FALSE
    /\ pause_event = TRUE
    /\ file = IF earlier THEN EarlierCheckpoint(items) ELSE NoFile
    /\ clock = file.data.end_time
    /\ run = 0
    /\ resume = FALSE
    /\ pc = "idle"
    /\ task = NoTasks
    /\ calls = NoCalls
    /\ cur = 0
    /\ yielded = {}
    /\ results = << >>
    /\ memory_mb = 0
    /\ save_ret = "next"
    /\ ret = NoRet
    /\ cancelReq = "none"
    /\ memFail = FALSE
    /\ loaded = NotLoaded
    /\ saveFailed = FALSE
    /\ pauseHeld = FALSE
    /\ finalSaved = FALSE
    /\ interrupted = NotInterrupted
    /\ ShutdownIdle
    /\ LocksIdle

InitWith(limitArgs) == InitOf(limitArgs, 0 .. MaxItems, FALSE)

Init == InitWith(MemoryLimitArgs)

\* ------------------------------------------------------- history bookkeeping
\* The completions the current call has folded so far (lines 180-185 start
\* from the loaded completed or from 0).
FoldsThisCall == progress.completed - (IF loaded.ok THEN loaded.data.completed ELSE 0)

\* The coordinator is past the check of line 203 for cur and has not begun to
\* fold cur (lines 208-216).
BeforeFold == pc \in {"wait", "mem", "poll", "fold"}
\* as_completed has yielded every submitted future.
LastTaken == Submitted \subseteq yielded
\* Every item is submitted, whatever the checkpoint says.
ToSubmitAll == { i \in Indices : i < items }

\* The items the current call will submit once it reaches the executor.
ToSubmit == { i \in Indices : i < items /\ ~(resume /\ i < progress.completed) }

\* What a cancel() arriving now means for the coordinating loop: "early" when
\* the check of line 203 is still to come for some submitted future, "late"
\* when the last future is past that check and its fold has not begun, "none"
\* otherwise (nothing left to fold, or no call in its loop).
CancelPhase ==
    IF pc \in {"idle", "init", "reset", "done"} \/ cancelled THEN cancelReq
    ELSE IF pc = "submit" THEN (IF ToSubmit = {} THEN "none" ELSE "early")
    ELSE IF ~LastTaken \/ pc = "chk_cancel" THEN "early"
    ELSE IF BeforeFold THEN "late"
    ELSE "none"

\* ------------------------------------------------------ process_batch steps
\* A caller invokes process_batch(items, process_func, resume).
CallProcessBatch(r) ==
    /\ run < MaxRuns
    /\ run' = run + 1
    /\ resume' = r
    /\ pc' = "init"
    /\ task' = NoTasks
    /\ calls' = NoCalls
    /\ cur' = 0
    /\ yielded' = {}
    /\ results' = << >>
    /\ ret' = NoRet
    /\ cancelReq' = "none"
    /\ memFail' = FALSE
    /\ loaded' = NotLoaded
    /\ saveFailed' = FALSE
    /\ finalSaved' = FALSE
    /\ interrupted' = IF pc = "done" THEN NotInterrupted ELSE interrupted
    /\ UNCHANGED << config, progress, cancelled, pause_event, file, clock,
                    memory_mb, save_ret, pauseHeld, shutdownVars, lockVars >>

\* The first call on a newly constructed BatchProcessor.
StartRun(r) ==
    /\ pc = "idle"
    /\ CallProcessBatch(r)

\* A further call on a BatchProcessor whose previous call has returned.
StartAgain(r) ==
    /\ pc = "done"
    /\ CallProcessBatch(r)

\* BatchProgress.from_dict is cls(**data): a key that is no field of the
\* dataclass is an unexpected keyword argument (TypeError).
FromDictRaises(f) == f.extra

\* _load_progress returns at line 339: the file parsed and from_dict took it.
LoadSucceeds == file.valid /\ ~FromDictRaises(file)

\* _load_progress: a file that does not parse, or whose document from_dict
\* refuses, leaves BatchProgress().
LoadProgress == IF LoadSucceeds THEN file.data ELSE BatchProgress

\* Lines 177-185: initialize or resume progress.
BeginBatch ==
    /\ pc = "init"
    /\ IF resume /\ file.exists
         THEN /\ progress' = LoadProgress
              /\ clock' = clock
              /\ loaded' = [ tried |-> TRUE, ok |-> LoadSucceeds,
                             data |-> LoadProgress ]
         ELSE /\ progress' = [BatchProgress EXCEPT !.total = items,
                                                   !.start_time = clock + 1,
                                                   !.status = RUNNING]
              /\ clock' = clock + 1
              /\ loaded' = NotLoaded
    /\ pc' = "reset"
    /\ UNCHANGED << config, cancelled, pause_event, file, run, resume, task,
                    calls, cur, yielded, results, memory_mb, save_ret, ret,
                    cancelReq, memFail, saveFailed, pauseHeld, finalSaved,
                    interrupted, shutdownVars, lockVars >>

\* Mutant of ResetCancelled: the flag is left as it is.
ResetCancelledKeepsFlag ==
    /\ pc = "reset"
    /\ results' = << >>
    /\ pc' = "submit"
    /\ UNCHANGED << config, progress, cancelled, pause_event, file, clock, run,
                    resume, task, calls, cur, yielded, memory_mb, save_ret, ret,
                    cancelReq, memFail, loaded, saveFailed, pauseHeld,
                    finalSaved, interrupted, shutdownVars, lockVars >>

\* Lines 187-188.
ResetCancelled ==
    /\ pc = "reset"
    /\ cancelled' = FALSE
    /\ results' = << >>
    /\ pc' = "submit"
    /\ UNCHANGED << config, progress, pause_event, file, clock, run, resume,
                    task, calls, cur, yielded, memory_mb, save_ret, ret,
                    cancelReq, memFail, loaded, saveFailed, pauseHeld,
                    finalSaved, interrupted, shutdownVars, lockVars >>

\* Lines 191-199: every item not skipped is submitted to the executor.
SubmitAll ==
    /\ pc = "submit"
    /\ task' = [ i \in Indices |-> IF i \in ToSubmit THEN "queued" ELSE "none" ]
    /\ pc' = "next"
    /\ UNCHANGED << config, progress, cancelled, pause_event, file, clock, run,
                    resume, calls, cur, yielded, results, memory_mb, save_ret,
                    ret, cancelReq, memFail, loaded, saveFailed, pauseHeld,
                    finalSaved, interrupted, shutdownVars, lockVars >>

\* Line 202: as_completed yields a finished future not yet yielded.
AsCompletedYield(i) ==
    /\ pc = "next"
    /\ i \in Finished \ yielded
    /\ cur' = i
    /\ yielded' = yielded \cup {i}
    /\ pc' = "chk_cancel"
    /\ UNCHANGED << config, progress, cancelled, pause_event, file, clock, run,
                    resume, task, calls, results, memory_mb, save_ret, ret,
                    cancelReq, memFail, loaded, saveFailed, pauseHeld,
                    finalSaved, interrupted, shutdownVars, lockVars >>

\* Line 202: as_completed is exhausted, the loop ends.
AsCompletedEnd ==
    /\ pc = "next"
    /\ LastTaken
    /\ pc' = "shutdown"
    /\ UNCHANGED << config, progress, cancelled, pause_event, file, clock, run,
                    resume, task, calls, cur, yielded, results, memory_mb,
                    save_ret, ret, cancelReq, memFail, loaded, saveFailed,
                    pauseHeld, finalSaved, interrupted, shutdownVars, lockVars >>

\* Mutant of CheckCancelled: the flag is not looked at.
CheckCancelledIgnored ==
    /\ pc = "chk_cancel"
    /\ pc' = "wait"
    /\ UNCHANGED << config, progress, cancelled, pause_event, file, clock, run,
                    resume, task, calls, cur, yielded, results, memory_mb,
                    save_ret, ret, cancelReq, memFail, loaded, saveFailed,
                    pauseHeld, finalSaved, interrupted, shutdownVars, lockVars >>

\* Lines 203-205.
CheckCancelled ==
    /\ pc = "chk_cancel"
    /\ pc' = IF cancelled THEN "shutdown" ELSE "wait"
    /\ UNCHANGED << config, progress, cancelled, pause_event, file, clock, run,
                    resume, task, calls, cur, yielded, results, memory_mb,
                    save_ret, ret, cancelReq, memFail, loaded, saveFailed,
                    pauseHeld, finalSaved, interrupted, shutdownVars, lockVars >>

\* Line 208: self._pause_event.wait() returns once the event is set.
WaitPause ==
    /\ pc = "wait"
    /\ pause_event
    /\ pc' = "mem"
    /\ UNCHANGED << config, progress, cancelled, pause_event, file, clock, run,
                    resume, task, calls, cur, yielded, results, memory_mb,
                    save_ret, ret, cancelReq, memFail, loaded, saveFailed,
                    pauseHeld, finalSaved, interrupted, shutdownVars, lockVars >>

\* ------------------------------------------------------------ _check_memory
\* Line 305: memory_mb > self.memory_limit_mb * 0.8
AboveResume(m) == m * 10 > memory_limit_mb * 8

\* Lines 288-289: without psutil the check returns at once.
CheckMemoryNoPsutil ==
    /\ pc = "mem"
    /\ ~has_psutil
    /\ pc' = "fold"
    /\ UNCHANGED << config, progress, cancelled, pause_event, file, clock, run,
                    resume, task, calls, cur, yielded, results, memory_mb,
                    save_ret, ret, cancelReq, memFail, loaded, saveFailed,
                    pauseHeld, finalSaved, interrupted, shutdownVars, lockVars >>

\* Lines 291-302 and 315-316: the first reading m; over the limit the event is
\* cleared and the polling loop entered; an exception is logged and ignored.
CheckMemory(m) ==
    /\ pc = "mem"
    /\ has_psutil
    /\ IF m = SampleFail
         THEN /\ memFail' = TRUE
              /\ pc' = "fold"
              /\ UNCHANGED << pause_event, memory_mb >>
         ELSE IF m > memory_limit_mb
         THEN /\ pause_event' = FALSE
              /\ memory_mb' = m
              /\ memFail' = FALSE
              /\ pc' = "poll"
         ELSE /\ memFail' = FALSE
              /\ pc' = "fold"
              /\ UNCHANGED << pause_event, memory_mb >>
    /\ UNCHANGED << config, progress, cancelled, file, clock, run, resume, task,
                    calls, cur, yielded, results, save_ret, ret, cancelReq,
                    loaded, saveFailed, pauseHeld, finalSaved, interrupted,
                    shutdownVars, lockVars >>

\* Lines 305-313 and 315-316: one more reading m after a sleep.  The loop is
\* left when m is no longer above 0.8 * limit, and then the event is set; an
\* exception leaves _check_memory through the handler, the event still clear.
PollMemory(m) ==
    /\ pc = "poll"
    /\ IF m = SampleFail
         THEN /\ memFail' = TRUE
              /\ memory_mb' = 0
              /\ pc' = "fold"
              /\ UNCHANGED pause_event
         ELSE IF AboveResume(m)
         THEN /\ memory_mb' = m
              /\ UNCHANGED << pc, pause_event, memFail >>
         ELSE /\ pause_event' = TRUE
              /\ memory_mb' = m
              /\ pc' = "fold"
              /\ UNCHANGED memFail
    /\ UNCHANGED << config, progress, cancelled, file, clock, run, resume, task,
                    calls, cur, yielded, results, save_ret, ret, cancelReq,
                    loaded, saveFailed, pauseHeld, finalSaved, interrupted,
                    shutdownVars, lockVars >>

\* ------------------------------------------------- folding one completion
\* Lines 216-220 / 228-230: future.result() returns or raises; the first
\* statement under the lock increments completed.
FoldResult ==
    /\ pc = "fold"
    /\ IF task[cur] = "ok"
         THEN /\ results' = Append(results, cur)
              /\ pc' = "fold_success"
         ELSE /\ results' = results
              /\ pc' = "fold_failed"
    /\ progress' = [progress EXCEPT !.completed = @ + 1]
    /\ memory_mb' = 0
    /\ memFail' = FALSE
    /\ UNCHANGED << config, cancelled, pause_event, file, clock, run, resume,
                    task, calls, cur, yielded, save_ret, ret, cancelReq, loaded,
                    saveFailed, pauseHeld, finalSaved, interrupted, shutdownVars,
                    lockVars >>

\* Mutant of FoldSuccess: success is not incremented.
FoldSuccessNotCounted ==
    /\ pc = "fold_success"
    /\ pc' = "ckpt"
    /\ UNCHANGED << config, progress, cancelled, pause_event, file, clock, run,
                    resume, task, calls, cur, yielded, results, memory_mb,
                    save_ret, ret, cancelReq, memFail, loaded, saveFailed,
                    pauseHeld, finalSaved, interrupted, shutdownVars, lockVars >>

\* Line 221.
FoldSuccess ==
    /\ pc = "fold_success"
    /\ progress' = [progress EXCEPT !.success = @ + 1]
    /\ pc' = "ckpt"
    /\ UNCHANGED << config, cancelled, pause_event, file, clock, run, resume,
                    task, calls, cur, yielded, results, memory_mb, save_ret, ret,
                    cancelReq, memFail, loaded, saveFailed, pauseHeld,
                    finalSaved, interrupted, shutdownVars, lockVars >>

\* Line 231.
FoldFailed ==
    /\ pc = "fold_failed"
    /\ progress' = [progress EXCEPT !.failed = @ + 1]
    /\ pc' = "fold_append"
    /\ UNCHANGED << config, cancelled, pause_event, file, clock, run, resume,
                    task, calls, cur, yielded, results, memory_mb, save_ret, ret,
                    cancelReq, memFail, loaded, saveFailed, pauseHeld,
                    finalSaved, interrupted, shutdownVars, lockVars >>

\* Mutant of FailedEntry: the position in the completion order, not the
\* item's index in the input.
FailedEntryPosition(item_index) == [ index |-> Len(progress.failed_items) ]

\* The entry appended for a failed item (item and error follow from the index).
FailedEntry(item_index) == [ index |-> item_index ]

\* Lines 232-236.
FoldAppend ==
    /\ pc = "fold_append"
    /\ progress' = [progress EXCEPT !.failed_items = Append(@, FailedEntry(cur))]
    /\ pc' = "ckpt"
    /\ UNCHANGED << config, cancelled, pause_event, file, clock, run, resume,
                    task, calls, cur, yielded, results, memory_mb, save_ret, ret,
                    cancelReq, memFail, loaded, saveFailed, pauseHeld,
                    finalSaved, interrupted, shutdownVars, lockVars >>

\* Mutant of Checkpoint: no periodic save.
CheckpointSkipped ==
    /\ pc = "ckpt"
    /\ pc' = "next"
    /\ UNCHANGED << config, progress, cancelled, pause_event, file, clock, run,
                    resume, task, calls, cur, yielded, results, memory_mb,
                    save_ret, ret, cancelReq, memFail, loaded, saveFailed,
                    pauseHeld, finalSaved, interrupted, shutdownVars, lockVars >>

\* Lines 244-245.
Checkpoint ==
    /\ pc = "ckpt"
    /\ IF progress.completed % checkpoint_interval = 0
         THEN /\ pc' = "save_open"
              /\ save_ret' = "next"
         ELSE /\ pc' = "next"
              /\ UNCHANGED save_ret
    /\ UNCHANGED << config, progress, cancelled, pause_event, file, clock, run,
                    resume, task, calls, cur, yielded, results, memory_mb, ret,
                    cancelReq, memFail, loaded, saveFailed, pauseHeld,
                    finalSaved, interrupted, shutdownVars, lockVars >>

\* ----------------------------------------------------------- _save_progress
\* The file between open(..., 'w') and the end of json.dump: not a JSON document.
PartialFile == [ exists |-> TRUE, valid |-> FALSE, extra |-> FALSE,
                 data |-> BatchProgress ]

\* Line 321: open(self.progress_file, 'w') truncates the file in place.
SaveOpen ==
    /\ pc = "save_open"
    /\ file' = PartialFile
    /\ pc' = "save_write"
    /\ UNCHANGED << config, progress, cancelled, pause_event, clock, run, resume,
                    task, calls, cur, yielded, results, memory_mb, save_ret, ret,
                    cancelReq, memFail, loaded, saveFailed, pauseHeld,
                    finalSaved, interrupted, shutdownVars, lockVars >>

\* Lines 321, 329-330: open raises; the exception is logged.
SaveOpenFail ==
    /\ pc = "save_open"
    /\ saveFailed' = TRUE
    /\ pc' = save_ret
    /\ UNCHANGED << config, progress, cancelled, pause_event, file, clock, run,
                    resume, task, calls, cur, yielded, results, memory_mb,
                    save_ret, ret, cancelReq, memFail, loaded, pauseHeld,
                    finalSaved, interrupted, shutdownVars, lockVars >>

\* The document is written without the end_time.
SaveWriteNoEndTime ==
    /\ pc = "save_write"
    /\ file' = [ exists |-> TRUE, valid |-> TRUE, extra |-> FALSE,
                 data |-> [progress EXCEPT !.end_time = 0] ]
    /\ finalSaved' = (save_ret = "ret")
    /\ pc' = save_ret
    /\ UNCHANGED << config, progress, cancelled, pause_event, clock, run, resume,
                    task, calls, cur, yielded, results, memory_mb, save_ret, ret,
                    cancelReq, memFail, loaded, saveFailed, pauseHeld,
                    interrupted, shutdownVars, lockVars >>

\* Line 322: json.dump writes the whole document.
SaveWrite ==
    /\ pc = "save_write"
    /\ file' = [ exists |-> TRUE, valid |-> TRUE, extra |-> FALSE,
                 data |-> progress ]
    /\ finalSaved' = (save_ret = "ret")
    /\ pc' = save_ret
    /\ UNCHANGED << config, progress, cancelled, pause_event, clock, run, resume,
                    task, calls, cur, yielded, results, memory_mb, save_ret, ret,
                    cancelReq, memFail, loaded, saveFailed, pauseHeld,
                    interrupted, shutdownVars, lockVars >>

\* The exception of a failed write leaves the loop instead of being logged.
SaveWriteFailAborts ==
    /\ pc = "save_write"
    /\ saveFailed' = TRUE
    /\ pc' = (IF save_ret = "ret" THEN "ret" ELSE "shutdown")
    /\ UNCHANGED << config, progress, cancelled, pause_event, file, clock, run,
                    resume, task, calls, cur, yielded, results, memory_mb,
                    save_ret, ret, cancelReq, memFail, loaded, pauseHeld,
                    finalSaved, interrupted, shutdownVars, lockVars >>

\* Lines 322, 329-330: the write raises part way; the exception is logged.
SaveWriteFail ==
    /\ pc = "save_write"
    /\ saveFailed' = TRUE
    /\ pc' = save_ret
    /\ UNCHANGED << config, progress, cancelled, pause_event, file, clock, run,
                    resume, task, calls, cur, yielded, results, memory_mb,
                    save_ret, ret, cancelReq, memFail, loaded, pauseHeld,
                    finalSaved, interrupted, shutdownVars, lockVars >>

\* ------------------------------------------------------------ end of a call
\* Line 191: leaving the with block is executor.shutdown(wait=True): it
\* returns when every submitted future has finished.
Shutdown ==
    /\ pc = "shutdown"
    /\ Submitted \subseteq Finished
    /\ pc' = "final"
    /\ UNCHANGED << config, progress, cancelled, pause_event, file, clock, run,
                    resume, task, calls, cur, yielded, results, memory_mb,
                    save_ret, ret, cancelReq, memFail, loaded, saveFailed,
                    pauseHeld, finalSaved, interrupted, shutdownVars, lockVars >>

\* A batch with a failed item ends FAILED.
FinalizeFailedOnErrors ==
    /\ pc = "final"
    /\ progress' = [progress EXCEPT
                      !.end_time = clock + 1,
                      !.status = IF cancelled THEN CANCELLED
                                 ELSE IF progress.failed > 0 THEN FAILED
                                 ELSE COMPLETED]
    /\ clock' = clock + 1
    /\ pc' = "save_open"
    /\ save_ret' = "ret"
    /\ UNCHANGED << config, cancelled, pause_event, file, run, resume, task,
                    calls, cur, yielded, results, memory_mb, ret, cancelReq,
                    memFail, loaded, saveFailed, pauseHeld, finalSaved,
                    interrupted, shutdownVars, lockVars >>

\* Lines 249-254.
Finalize ==
    /\ pc = "final"
    /\ progress' = [progress EXCEPT
                      !.end_time = clock + 1,
                      !.status = IF cancelled THEN CANCELLED ELSE COMPLETED]
    /\ clock' = clock + 1
    /\ pc' = "save_open"
    /\ save_ret' = "ret"
    /\ UNCHANGED << config, cancelled, pause_event, file, run, resume, task,
                    calls, cur, yielded, results, memory_mb, ret, cancelReq,
                    memFail, loaded, saveFailed, pauseHeld, finalSaved,
                    interrupted, shutdownVars, lockVars >>

\* Lines 256-260: the returned dictionary.
Return ==
    /\ pc = "ret"
    /\ ret' = [ results |-> results, progress |-> progress,
                success |-> (progress.failed = 0) ]
    /\ pc' = "done"
    \* the locals and the executor are gone
    /\ results' = << >>
    /\ yielded' = {}
    /\ cur' = 0
    /\ task' = NoTasks
    /\ UNCHANGED << config, progress, cancelled, pause_event, file, clock, run,
                    resume, calls, memory_mb, save_ret, cancelReq, memFail,
                    loaded, saveFailed, pauseHeld, finalSaved, interrupted,
                    shutdownVars, lockVars >>

\* ------------------------------------------------------------------ workers
\* The pool starts a thread for every queued work item.
StartWorkUnbounded(i) ==
    /\ task[i] = "queued"
    /\ \A j \in Indices : j < i => task[j] # "queued"
    /\ task' = [task EXCEPT ![i] = "running"]
    /\ calls' = [calls EXCEPT ![i] = @ + 1]
    /\ UNCHANGED << config, progress, cancelled, pause_event, file, clock, run,
                    resume, pc, cur, yielded, results, memory_mb, save_ret, ret,
                    cancelReq, memFail, loaded, saveFailed, pauseHeld,
                    finalSaved, interrupted, shutdownVars, lockVars >>

\* A pool thread takes the oldest queued work item; there are max_workers
\* threads.  Nothing but the queue decides whether a work item starts.
StartWork(i) ==
    /\ task[i] = "queued"
    /\ \A j \in Indices : j < i => task[j] # "queued"
    /\ Cardinality(Running) < max_workers
    /\ task' = [task EXCEPT ![i] = "running"]
    /\ calls' = [calls EXCEPT ![i] = @ + 1]
    /\ UNCHANGED << config, progress, cancelled, pause_event, file, clock, run,
                    resume, pc, cur, yielded, results, memory_mb, save_ret, ret,
                    cancelReq, memFail, loaded, saveFailed, pauseHeld,
                    finalSaved, interrupted, shutdownVars, lockVars >>

\* Lines 277-284: process_func(item) returns or raises.
FinishWork(i) ==
    /\ task[i] = "running"
    /\ task' = [task EXCEPT ![i] = IF i \in failing THEN "err" ELSE "ok"]
    /\ UNCHANGED << config, progress, cancelled, pause_event, file, clock, run,
                    resume, pc, calls, cur, yielded, results, memory_mb,
                    save_ret, ret, cancelReq, memFail, loaded, saveFailed,
                    pauseHeld, finalSaved, interrupted, shutdownVars, lockVars >>

\* ----------------------------------------------------------------- controls
\* Lines 348-351.
Cancel ==
    /\ cancelled' = TRUE
    /\ cancelReq' = CancelPhase
    /\ UNCHANGED << config, progress, pause_event, file, clock, run, resume, pc,
                    task, calls, cur, yielded, results, memory_mb, save_ret, ret,
                    memFail, loaded, saveFailed, pauseHeld, finalSaved,
                    interrupted, shutdownVars, lockVars >>

\* Lines 353-356.
Pause ==
    /\ pause_event' = FALSE
    /\ pauseHeld' = TRUE
    /\ UNCHANGED << config, progress, cancelled, file, clock, run, resume, pc,
                    task, calls, cur, yielded, results, memory_mb, save_ret, ret,
                    cancelReq, memFail, loaded, saveFailed, finalSaved,
                    interrupted, shutdownVars, lockVars >>

\* Lines 358-361.
Resume ==
    /\ pause_event' = TRUE
    /\ pauseHeld' = FALSE
    /\ UNCHANGED << config, progress, cancelled, file, clock, run, resume, pc,
                    task, calls, cur, yielded, results, memory_mb, save_ret, ret,
                    cancelReq, memFail, loaded, saveFailed, finalSaved,
                    interrupted, shutdownVars, lockVars >>

\* The process dies during a call; a new BatchProcessor is constructed in a
\* new process with the same arguments.  Only the progress file survives.
Crash ==
    /\ pc \notin {"idle", "done"}
    /\ run < MaxRuns
    /\ progress' = BatchProgress
    /\ cancelled' = FALSE
    /\ pause_event' = TRUE
    /\ resume' = FALSE
    /\ pc' = "idle"
    /\ task' = NoTasks
    /\ calls' = NoCalls
    /\ cur' = 0
    /\ yielded' = {}
    /\ results' = << >>
    /\ memory_mb' = 0
    /\ save_ret' = "next"
    /\ ret' = NoRet
    /\ cancelReq' = "none"
    /\ memFail' = FALSE
    /\ loaded' = NotLoaded
    /\ saveFailed' = FALSE
    /\ pauseHeld' = FALSE
    /\ finalSaved' = FALSE
    /\ interrupted' =
          [ was |-> TRUE,
            lost |-> { i \in Indices \ Finished :
                         file.valid /\ i < file.data.completed } ]
    /\ UNCHANGED << config, file, clock, run, shutdownVars, lockVars >>

\* The progress file a resuming call is about to read was left by a newer
\* version of the program, whose ProgressState has further fields: the same
\* document with keys that this BatchProgress does not have.
NewerVersionSave ==
    /\ pc = "init" /\ resume
    /\ file.valid /\ ~file.extra
    /\ file' = [ file EXCEPT !.extra = TRUE ]
    /\ UNCHANGED << config, progress, cancelled, pause_event, clock, run, resume,
                    pc, task, calls, cur, yielded, results, memory_mb, save_ret,
                    ret, cancelReq, memFail, loaded, saveFailed, pauseHeld,
                    finalSaved, interrupted, shutdownVars, lockVars >>

\* The steps of the thread that runs process_batch, but for readings of psutil.
CoordinatorNoPsutil ==
    \/ BeginBatch
    \/ ResetCancelled
    \/ SubmitAll
    \/ \E i \in Indices : AsCompletedYield(i)
    \/ AsCompletedEnd
    \/ CheckCancelled
    \/ WaitPause
    \/ CheckMemoryNoPsutil
    \/ FoldResult
    \/ FoldSuccess
    \/ FoldFailed
    \/ FoldAppend
    \/ Checkpoint
    \/ SaveOpen
    \/ SaveWrite
    \/ Shutdown
    \/ Finalize
    \/ Return

\* The steps of the thread that runs process_batch.
Coordinator ==
    \/ CoordinatorNoPsutil
    \/ \E m \in MemSamples \cup {SampleFail} : CheckMemory(m)

\* The steps of the pool's threads.
Workers ==
    \/ \E i \in Indices : StartWork(i)
    \/ \E i \in Indices : FinishWork(i)

\* What the disk may do to a save.
SaveFaults ==
    \/ SaveOpenFail
    \/ SaveWriteFail

\* One call of process_batch on a new BatchProcessor, left alone by other threads.
NextQuiet ==
    \/ \E r \in BOOLEAN : StartRun(r)
    \/ Coordinator
    \/ \E m \in MemSamples \cup {SampleFail} : PollMemory(m)
    \/ Workers
    \/ SaveFaults

\* One call of process_batch on a new BatchProcessor, with the controls.
NextOneCall ==
    \/ NextQuiet
    \/ Cancel
    \/ Pause
    \/ Resume

\* Any number of calls up to MaxRuns, on the same processor or after a crash.
Next ==
    \/ NextOneCall
    \/ \E r \in BOOLEAN : StartAgain(r)
    \/ Crash
    \/ NewerVersionSave

Spec == Init /\ [][Next]_vars

SpecOneCall == Init /\ [][NextOneCall]_vars

\* Calls repeated up to MaxRuns, on the same processor or after a crash, where
\* psutil is not installed and no other thread calls cancel, pause or resume.
NextResume ==
    \/ \E r \in BOOLEAN : StartRun(r)
    \/ \E r \in BOOLEAN : StartAgain(r)
    \/ CoordinatorNoPsutil
    \/ Workers
    \/ SaveFaults
    \/ Crash

InitNoPsutil == Init /\ ~has_psutil

\* BatchProcessor(memory_limit_mb=0), or memory_limit_mb not given.
InitDefaultLimit == InitWith({0})

\* One call, left alone by other threads, on a processor constructed with
\* memory_limit_mb = 0.
SpecDefaultLimit == InitDefaultLimit /\ [][NextQuiet]_vars

SpecResume == InitNoPsutil /\ [][NextResume]_vars

\* One call on a batch of LongBatch items, psutil not installed, left alone
\* by other threads.
NextLongBatch ==
    \/ \E r \in BOOLEAN : StartRun(r)
    \/ CoordinatorNoPsutil
    \/ Workers
    \/ SaveFaults

InitLongBatch == InitOf(MemoryLimitArgs, {LongBatch}, FALSE) /\ ~has_psutil

SpecLongBatch == InitLongBatch /\ [][NextLongBatch]_vars

\* A batch is started afresh (resume = False) where an earlier batch left its
\* progress file; the process dies during that call, and the batch is then
\* resumed (resume = True) in a new process.  psutil is not installed.
NextFreshThenResume ==
    \/ StartRun(interrupted.was)
    \/ CoordinatorNoPsutil
    \/ Workers
    \/ SaveFaults
    \/ Crash

InitEarlierBatch == InitOf(MemoryLimitArgs, 1 .. MaxItems, TRUE) /\ ~has_psutil

SpecFreshThenResume == InitEarlierBatch /\ [][NextFreshThenResume]_vars

\* The scheduler runs every thread that can run; a memory reading at or below
\* 0.8 * limit eventually comes while the loop polls.
FairSpec ==
    /\ Init
    /\ [][NextQuiet]_vars
    /\ WF_vars(Coordinator)
    /\ WF_vars(Workers)
    /\ WF_vars(\E m \in MemSamples : ~AboveResume(m) /\ PollMemory(m))

\* One call of process_batch while another thread calls pause() and resume().
NextPaused ==
    \/ NextQuiet
    \/ Pause
    \/ Resume

\* As FairSpec, and: every pause() is followed by a resume(); a coordinator
\* blocked in self._pause_event.wait() is woken by the set() of a resume()
\* even if another pause() follows at once.
FairPauseSpec ==
    /\ Init
    /\ [][NextPaused]_vars
    /\ WF_vars(Coordinator)
    /\ SF_vars(WaitPause)
    /\ WF_vars(Workers)
    /\ WF_vars(\E m \in MemSamples : ~AboveResume(m) /\ PollMemory(m))
    /\ WF_vars(pauseHeld /\ Resume)

\* cancel() and pause() called by another thread while a call is under way.
CancelDuringCall == pc \notin {"idle", "done"} /\ Cancel

PauseDuringCall == pc \notin {"idle", "done"} /\ Pause

\* One call of process_batch during which another thread may call cancel()
\* and pause(), and nobody calls resume().
NextCancelled ==
    \/ NextQuiet
    \/ CancelDuringCall
    \/ PauseDuringCall

\* As FairSpec; nothing is assumed of the caller's threads.
FairCancelSpec ==
    /\ Init
    /\ [][NextCancelled]_vars
    /\ WF_vars(Coordinator)
    /\ WF_vars(Workers)
    /\ WF_vars(\E m \in MemSamples : ~AboveResume(m) /\ PollMemory(m))

\* pause() called by another thread while _check_memory holds the loop in its
\* polling (lines 305-307).
PauseDuringBackpressure == pc = "poll" /\ Pause

\* One call of process_batch during which another thread may call pause()
\* while memory is over the limit, and resume() at any time.
NextBackpressure ==
    \/ NextQuiet
    \/ PauseDuringBackpressure
    \/ Resume

SpecBackpressure == Init /\ [][NextBackpressure]_vars

\* cancel() called at any time but during the last call of the model: before
\* a call, during an earlier call, or between calls.
CancelEarlier == (run < MaxRuns \/ pc \in {"idle", "done"}) /\ Cancel

\* Calls repeated on one BatchProcessor, psutil not installed; cancel() is
\* called freely until the last call begins, and not during it.
NextCancelEarlier ==
    \/ \E r \in BOOLEAN : StartRun(r)
    \/ \E r \in BOOLEAN : StartAgain(r)
    \/ CoordinatorNoPsutil
    \/ Workers
    \/ SaveFaults
    \/ CancelEarlier

SpecCancelEarlier == InitNoPsutil /\ [][NextCancelEarlier]_vars

\* ---------------------------------------------------------- ShutdownHandler
\* src/src/utils/shutdown_handler.py.  A call in progress is a frame
\* [op, pc, i]: op is register, manual (shutdown()), signal (_signal_handler)
\* or atexit (the hook of line 163); i is the position of the reversed
\* iterator of line 88.  A signal handler runs in the main thread on top of
\* whatever that thread was doing.
Frame(o, p, k) == [ op |-> o, pc |-> p, i |-> k ]
Top(t) == sh_stack[t][Len(sh_stack[t])]
Busy(t) == Len(sh_stack[t]) > 0
Push(t, f) == [ sh_stack EXCEPT ![t] = Append(@, f) ]
Pop(t) == [ sh_stack EXCEPT ![t] = SubSeq(@, 1, Len(@) - 1) ]
SetTop(t, f) == [ sh_stack EXCEPT ![t][Len(sh_stack[t])] = f ]

\* The first trigger fixes which callbacks were registered before it.
FirstTrigger == IF sh_first < 0 THEN Len(sh_callbacks) ELSE sh_first

\* Lines 51, 61: the main thread calls register_cleanup.
Register ==
    /\ sh_phase = "running"
    /\ ~Busy("main")
    /\ Len(sh_callbacks) < MaxCallbacks
    /\ sh_stack' = Push("main", Frame("register", "lock", 0))
    /\ UNCHANGED << batchVars, sh_callbacks, sh_in_progress, sh_lock, sh_phase,
                    sh_invoked, sh_signals, sh_first, lockVars >>

\* Lines 175-177: a thread calls shutdown().
ManualShutdown(t) ==
    /\ sh_phase = "running"
    /\ ~Busy(t)
    /\ sh_stack' = Push(t, Frame("manual", "lock", 0))
    /\ sh_first' = FirstTrigger
    /\ UNCHANGED << batchVars, sh_callbacks, sh_in_progress, sh_lock, sh_phase,
                    sh_invoked, sh_signals, lockVars >>

\* Lines 122-139: SIGINT or SIGTERM is delivered; the interpreter runs
\* _signal_handler in the main thread between two bytecodes.
Signal ==
    /\ sh_phase = "running"
    /\ sh_signals < MaxSignals
    /\ sh_signals' = sh_signals + 1
    /\ sh_stack' = Push("main", Frame("signal", "lock", 0))
    /\ sh_first' = FirstTrigger
    /\ UNCHANGED << batchVars, sh_callbacks, sh_in_progress, sh_lock, sh_phase,
                    sh_invoked, lockVars >>

\* The program ends: the main thread leaves its code.
MainEnds ==
    /\ sh_phase = "running"
    /\ ~Busy("main")
    /\ sh_phase' = "exiting"
    /\ UNCHANGED << batchVars, sh_callbacks, sh_in_progress, sh_lock, sh_stack,
                    sh_invoked, sh_signals, sh_first, lockVars >>

\* Line 163: at interpreter exit, once the other threads are joined, the
\* atexit hook calls _execute_cleanup.
AtExit ==
    /\ sh_phase = "exiting"
    /\ ~Busy("main") /\ ~Busy("other")
    /\ sh_stack' = Push("main", Frame("atexit", "lock", 0))
    /\ sh_first' = FirstTrigger
    /\ UNCHANGED << batchVars, sh_callbacks, sh_in_progress, sh_lock, sh_phase,
                    sh_invoked, sh_signals, lockVars >>

\* Lines 61, 77: with self._lock.  threading.Lock is not reentrant.
AcquireLock(t) ==
    /\ Busy(t)
    /\ Top(t).pc = "lock"
    /\ sh_lock = "free"
    /\ sh_lock' = t
    /\ sh_stack' = SetTop(t, [Top(t) EXCEPT
                        !.pc = IF Top(t).op = "register" THEN "append" ELSE "check"])
    /\ UNCHANGED << batchVars, sh_callbacks, sh_in_progress, sh_phase,
                    sh_invoked, sh_signals, sh_first, lockVars >>

\* Lines 62-68.
RegisterAppend ==
    /\ Busy("main")
    /\ Top("main").pc = "append"
    /\ sh_callbacks' = Append(sh_callbacks, Len(sh_callbacks) + 1)
    /\ sh_lock' = "free"
    /\ sh_stack' = Pop("main")
    /\ UNCHANGED << batchVars, sh_in_progress, sh_phase, sh_invoked, sh_signals,
                    sh_first, lockVars >>

\* Lines 78-88: a shutdown in progress returns; otherwise the flag is set,
\* the lock released and the reversed iterator created.
CheckInProgress(t) ==
    /\ Busy(t)
    /\ Top(t).pc = "check"
    /\ sh_lock' = "free"
    /\ IF sh_in_progress
         THEN /\ sh_stack' = SetTop(t, [Top(t) EXCEPT !.pc = "ret"])
              /\ UNCHANGED sh_in_progress
         ELSE /\ sh_in_progress' = TRUE
              /\ sh_stack' = SetTop(t, [Top(t) EXCEPT !.pc = "loop",
                                                      !.i = Len(sh_callbacks)])
    /\ UNCHANGED << batchVars, sh_callbacks, sh_phase, sh_invoked, sh_signals,
                    sh_first, lockVars >>

\* Lines 88-95: the next callback of the reversed iterator is called.
StartCallback(t) ==
    /\ Busy(t)
    /\ Top(t).pc = "loop"
    /\ Top(t).i > 0
    /\ sh_invoked' = Append(sh_invoked, sh_callbacks[Top(t).i])
    /\ sh_stack' = SetTop(t, [Top(t) EXCEPT !.pc = "call"])
    /\ UNCHANGED << batchVars, sh_callbacks, sh_in_progress, sh_lock, sh_phase,
                    sh_signals, sh_first, lockVars >>

\* Lines 97-100: the callback returns.
CallbackReturns(t) ==
    /\ Busy(t)
    /\ Top(t).pc = "call"
    /\ sh_stack' = SetTop(t, [Top(t) EXCEPT !.pc = "loop", !.i = @ - 1])
    /\ UNCHANGED << batchVars, sh_callbacks, sh_in_progress, sh_lock, sh_phase,
                    sh_invoked, sh_signals, sh_first, lockVars >>

\* Lines 102-108: the callback raises an Exception; it is logged.
CallbackRaises(t) ==
    /\ Busy(t)
    /\ Top(t).pc = "call"
    /\ sh_stack' = SetTop(t, [Top(t) EXCEPT !.pc = "loop", !.i = @ - 1])
    /\ UNCHANGED << batchVars, sh_callbacks, sh_in_progress, sh_lock, sh_phase,
                    sh_invoked, sh_signals, sh_first, lockVars >>

\* Lines 110-120: the iterator is exhausted; cleanup_temp_files.
CleanupTempFiles(t) ==
    /\ Busy(t)
    /\ Top(t).pc = "loop"
    /\ Top(t).i = 0
    /\ sh_stack' = SetTop(t, [Top(t) EXCEPT !.pc = "ret"])
    /\ UNCHANGED << batchVars, sh_callbacks, sh_in_progress, sh_lock, sh_phase,
                    sh_invoked, sh_signals, sh_first, lockVars >>

\* _execute_cleanup returns to shutdown() or to the atexit machinery.
ReturnFromCleanup(t) ==
    /\ Busy(t)
    /\ Top(t).pc = "ret"
    /\ Top(t).op \in {"manual", "atexit"}
    /\ sh_stack' = Pop(t)
    /\ sh_phase' = (IF Top(t).op = "atexit" THEN "exited" ELSE sh_phase)
    /\ UNCHANGED << batchVars, sh_callbacks, sh_in_progress, sh_lock, sh_invoked,
                    sh_signals, sh_first, lockVars >>

\* Lines 141-146: after _execute_cleanup the handler calls the original
\* handler (default_int_handler raises KeyboardInterrupt) or sys.exit(0)
\* (SystemExit).  Neither is an Exception: it passes the except clauses of
\* lines 102 and 113 of whatever call of _execute_cleanup the signal
\* interrupted, and the main thread unwinds to interpreter exit.
SignalHandlerExits ==
    /\ Busy("main")
    /\ Top("main").pc = "ret"
    /\ Top("main").op = "signal"
    /\ sh_stack' = [ sh_stack EXCEPT !["main"] = << >> ]
    /\ sh_lock' = (IF sh_lock = "main" THEN "free" ELSE sh_lock)
    /\ sh_phase' = "exiting"
    /\ UNCHANGED << batchVars, sh_callbacks, sh_in_progress, sh_invoked,
                    sh_signals, sh_first, lockVars >>

NextShutdown ==
    \/ Register
    \/ \E t \in Threads : ManualShutdown(t)
    \/ Signal
    \/ MainEnds
    \/ AtExit
    \/ \E t \in Threads : AcquireLock(t)
    \/ RegisterAppend
    \/ \E t \in Threads : CheckInProgress(t)
    \/ \E t \in Threads : StartCallback(t)
    \/ \E t \in Threads : CallbackReturns(t)
    \/ \E t \in Threads : CallbackRaises(t)
    \/ \E t \in Threads : CleanupTempFiles(t)
    \/ \E t \in Threads : ReturnFromCleanup(t)
    \/ SignalHandlerExits

\* A program that uses the ShutdownHandler only: the BatchProcessor stays as
\* constructed.
InitShutdown ==
    /\ Init
    /\ max_workers = 1 /\ checkpoint_interval = 1 /\ ~has_psutil /\ items = 0

SpecShutdown == InitShutdown /\ [][NextShutdown]_vars

\* ----------------------------------------------------------------- FileLock
\* src/src/utils/file_lock.py on a system with fcntl.  flock locks belong to
\* the open file description: two FileLock instances exclude each other when
\* their descriptors are on the same inode.

\* Lines 106-114: acquire() opens lock_file_path for writing, which creates
\* the file when the path names none.
AcquireOpen(l) ==
    /\ fl_pc[l] = "idle"
    /\ ~fl_locked[l]
    /\ IF fl_path # 0
         THEN /\ fl_fd' = [fl_fd EXCEPT ![l] = fl_path]
              /\ UNCHANGED << fl_path, fl_inodes >>
         ELSE /\ fl_inodes < MaxInodes
              /\ fl_inodes' = fl_inodes + 1
              /\ fl_path' = fl_inodes + 1
              /\ fl_fd' = [fl_fd EXCEPT ![l] = fl_inodes + 1]
    /\ fl_pc' = [fl_pc EXCEPT ![l] = "try"]
    /\ UNCHANGED << batchVars, fl_holder, fl_locked, shutdownVars >>

\* Lines 119, 126-128, 154-157: flock(LOCK_EX | LOCK_NB) succeeds.
Flock(l) ==
    /\ fl_pc[l] = "try"
    /\ fl_holder[fl_fd[l]] = 0
    /\ fl_holder' = [fl_holder EXCEPT ![fl_fd[l]] = l]
    /\ fl_locked' = [fl_locked EXCEPT ![l] = TRUE]
    /\ fl_pc' = [fl_pc EXCEPT ![l] = "idle"]
    /\ UNCHANGED << batchVars, fl_path, fl_inodes, fl_fd, shutdownVars >>

\* Lines 130-137: flock raises because another descriptor holds the lock,
\* and the timeout has passed: acquire() returns False.
FlockTimeout(l) ==
    /\ fl_pc[l] = "try"
    /\ fl_holder[fl_fd[l]] # 0
    /\ fl_pc' = [fl_pc EXCEPT ![l] = "idle"]
    /\ UNCHANGED << batchVars, fl_path, fl_inodes, fl_holder, fl_fd, fl_locked,
                    shutdownVars >>

\* Lines 171-181, 208: release() unlocks and clears is_locked.
ReleaseUnlock(l) ==
    /\ fl_pc[l] = "idle"
    /\ fl_locked[l]
    /\ fl_holder' = [fl_holder EXCEPT ![fl_fd[l]] = 0]
    /\ fl_locked' = [fl_locked EXCEPT ![l] = FALSE]
    /\ fl_pc' = [fl_pc EXCEPT ![l] = "close"]
    /\ UNCHANGED << batchVars, fl_path, fl_inodes, fl_fd, shutdownVars >>

\* Lines 191-195: the descriptor is closed.
ReleaseClose(l) ==
    /\ fl_pc[l] = "close"
    /\ fl_fd' = [fl_fd EXCEPT ![l] = 0]
    /\ fl_pc' = [fl_pc EXCEPT ![l] = "remove"]
    /\ UNCHANGED << batchVars, fl_path, fl_inodes, fl_holder, fl_locked,
                    shutdownVars >>

\* Lines 197-201: whatever file lock_file_path names now is removed.
ReleaseRemove(l) ==
    /\ fl_pc[l] = "remove"
    /\ fl_path' = 0
    /\ fl_pc' = [fl_pc EXCEPT ![l] = "idle"]
    /\ UNCHANGED << batchVars, fl_inodes, fl_holder, fl_fd, fl_locked,
                    shutdownVars >>

NextFileLock ==
    \/ \E l \in Locks : AcquireOpen(l)
    \/ \E l \in Locks : Flock(l)
    \/ \E l \in Locks : FlockTimeout(l)
    \/ \E l \in Locks : ReleaseUnlock(l)
    \/ \E l \in Locks : ReleaseClose(l)
    \/ \E l \in Locks : ReleaseRemove(l)

\* A program that uses the FileLock instances only.
SpecFileLock == InitShutdown /\ [][NextFileLock]_vars

\* ------------------------------------------------------------------ claims
\* What a reader of a ProgressState p expects of its counters.
Consistent(p) ==
    /\ p.completed = p.success + p.failed
    /\ p.failed = Len(p.failed_items)

\* The call has returned and no cancel() took effect in it.
ReturnedUncancelled == pc = "done" /\ ~cancelled

\* C1: a fresh call (resume = FALSE) over items whose process_func never
\* raises, not cancelled, returns with completed = total = N, success = N,
\* failed = 0, status COMPLETED, the success flag true, results holding the N
\* return values once each in some order, and process_func invoked once per item.
C1_FreshRunAllSucceed ==
    (ReturnedUncancelled /\ ~resume /\ failing = {}) =>
        /\ ret.progress.total = items
        /\ ret.progress.completed = items
        /\ ret.progress.success = items
        /\ ret.progress.failed = 0
        /\ ret.progress.status = COMPLETED
        /\ ret.success = TRUE
        /\ Len(ret.results) = items
        /\ Range(ret.results) = 0 .. (items - 1)
        /\ \A i \in 0 .. (items - 1) : calls[i] = 1

\* Two workers, both items succeed, the second completes first.
C1_Witness ==
    /\ ReturnedUncancelled /\ ~resume /\ failing = {}
    /\ max_workers = 2
    /\ items = 2
    /\ ret.results = << 1, 0 >>

\* C2: a fresh call, not cancelled, in which process_func raises exactly on the
\* items of failing returns (does not raise) with every item invoked once,
\* success = N - |F|, failed = |F|, completed = N, and failed_items holding one
\* entry per failing item, carrying that item's index in the input.
C2_FailuresRecorded ==
    (ReturnedUncancelled /\ ~resume) =>
        /\ \A i \in 0 .. (items - 1) : calls[i] = 1
        /\ ret.progress.completed = items
        /\ ret.progress.failed = Cardinality(failing)
        /\ ret.progress.success = items - Cardinality(failing)
        /\ Len(ret.progress.failed_items) = Cardinality(failing)
        /\ { e.index : e \in Range(ret.progress.failed_items) } = failing
        /\ Range(ret.results) = (0 .. (items - 1)) \ failing

\* Item 1 of two fails, item 0 succeeds; the failing item completed first.
C2_Witness ==
    /\ ReturnedUncancelled /\ ~resume
    /\ items = 2
    /\ failing = {1}
    /\ ret.progress.failed_items = << [index |-> 1] >>
    /\ ret.progress.success = 1
    /\ ret.results = << 0 >>
    /\ ret.success = FALSE

\* C3: at every instant of a call, what get_progress returns and what the
\* progress file holds satisfy completed = success + failed and
\* failed = len(failed_items).
C3_CountersConsistent ==
    (pc \notin {"idle", "done"}) =>
        /\ Consistent(progress)
        /\ file.valid => Consistent(file.data)

\* C4: in every state of every call, fresh or resumed, completed <= total.
C4_CompletedAtMostTotal == progress.completed <= progress.total

C6_NoStartAfterCancel ==
    [][~(cancelled /\ \E i \in Indices : task[i] = "queued" /\ task'[i] = "running")]_vars

\* C7: while the event is clear (pause() or memory backpressure), no
\* process_func invocation is started for an item that was still queued.
C7_NoStartWhileGateClosed ==
    [][~(~pause_event /\ \E i \in Indices : task[i] = "queued" /\ task'[i] = "running")]_vars

\* C8 (its liveness half): once the memory check throttles, and readings at or
\* below 0.8 * limit eventually come, the call reaches COMPLETED with
\* completed = total.
C8_ThrottledRunCompletes ==
    (pc = "poll") ~>
        (pc = "done" /\ ret.progress.status = COMPLETED
                     /\ ret.progress.completed = ret.progress.total)

\* C9: a reading that raises while _check_memory polls leaves the gate open.
C9_SampleFailureLeavesGateOpen ==
    [][(pc = "poll" /\ memFail') => pause_event']_vars

\* C10: whenever no save is in the middle of its write, the progress file is
\* absent or holds one complete serialized BatchProgress.
C10_FileAbsentOrComplete ==
    (pc # "save_write") => (file.exists => file.valid)

\* C11: a call with resume = True that loaded a checkpoint recording
\* completed = k never invokes process_func on an item of index below k, and
\* when it returns without a cancel it has invoked process_func exactly once
\* on each item of index k .. N-1 and reports completed = N.
C11_ResumeSkipsCompleted ==
    /\ loaded.ok =>
          \A i \in Indices :
              i < loaded.data.completed => (task[i] = "none" /\ calls[i] = 0)
    /\ (ReturnedUncancelled /\ loaded.ok) =>
          /\ \A i \in 0 .. (items - 1) :
                 calls[i] = (IF i < loaded.data.completed THEN 0 ELSE 1)
          /\ ret.progress.completed = items

\* A checkpoint of 1 of 2 items was resumed and the second item processed.
C11_Witness ==
    /\ ReturnedUncancelled
    /\ loaded.ok
    /\ items = 2
    /\ loaded.data.completed = 1
    /\ calls[1] = 1
    /\ ret.progress.completed = 2

\* C12: a call with resume = True that loaded the checkpoint of a completed
\* run invokes process_func on no item and returns the BatchProgress that the
\* checkpoint holds: the same counters, status, failed_items, start_time and
\* end_time.
C12_ResumeIdempotent ==
    (pc = "done" /\ loaded.ok /\ loaded.data.status = COMPLETED) =>
        /\ \A i \in Indices : calls[i] = 0
        /\ ret.progress = loaded.data

\* C13: a call with resume = True whose _load_progress failed goes on as a
\* fresh run: total = len(items), start_time set, status RUNNING while it
\* processes, and it returns completed = total = len(items).
C13_UnreadableCheckpointIsFresh ==
    (loaded.tried /\ ~loaded.ok) =>
        /\ progress.total = items
        /\ progress.start_time # 0
        /\ (pc \in {"reset", "submit", "next"}) => progress.status = RUNNING
        /\ ReturnedUncancelled =>
              /\ ret.progress.completed = items
              /\ ret.progress.total = items

\* C14: a call with resume = True that reads a checkpoint holding every
\* BatchProgress field plus unknown ones works on the BatchProgress of those
\* fields, and submits only the items from index completed on.
C14_ExtraFieldsIgnored ==
    (pc \in {"reset", "submit"} /\ resume /\ file.valid /\ file.extra) =>
        /\ progress = file.data
        /\ ToSubmit = { i \in Indices : file.data.completed <= i /\ i < items }

\* C15: a fresh call in which a _save_progress failed (a periodic one or the
\* final one), not cancelled, still returns, with every item invoked once and
\* the counters, failed_items and status of a call whose saves all succeeded:
\* completed = total = N, failed = |F|, success = N - |F|, one failed_items
\* entry per failing item, status COMPLETED.
C15_SaveFailureKeepsResult ==
    (ReturnedUncancelled /\ saveFailed /\ ~loaded.tried) =>
        /\ \A i \in 0 .. (items - 1) : calls[i] = 1
        /\ ret.progress.status = COMPLETED
        /\ ret.progress.total = items
        /\ ret.progress.completed = items
        /\ ret.progress.failed = Cardinality(failing)
        /\ ret.progress.success = items - Cardinality(failing)
        /\ Len(ret.progress.failed_items) = Cardinality(failing)
        /\ { e.index : e \in Range(ret.progress.failed_items) } = failing
        /\ ret.success = (failing = {})

\* Every save of a two-item call with one failing item failed: no progress
\* file was left, and the call returned the full result.
C15_Witness ==
    /\ ReturnedUncancelled /\ saveFailed /\ ~loaded.tried
    /\ ~file.valid
    /\ checkpoint_interval = 1
    /\ items = 2
    /\ failing = {0}
    /\ ret.progress.completed = 2
    /\ ret.progress.failed = 1

\* C16: the status of a BatchProgress, one loaded by a resuming call included,
\* never returns to PENDING and never leaves COMPLETED, CANCELLED or FAILED,
\* and its end_time is not written again once set.  (The steps that put
\* another BatchProgress in self.progress, lines 179-185 and a new process,
\* are left aside.)
C16_StatusMonotone ==
    [][(pc # "init" /\ pc' # "idle") =>
          /\ (progress'.status = PENDING) => (progress.status = PENDING)
          /\ (progress.status \in {COMPLETED, CANCELLED, FAILED}) =>
                (progress'.status = progress.status)
          /\ (progress.end_time # 0) => (progress'.end_time = progress.end_time)
      ]_vars

\* C17: no BatchProgress ever has status FAILED; a fresh call over N >= 1
\* items that all raise, not cancelled, returns with failed = N, success = 0,
\* status COMPLETED and the flag 'success' False; and in every returned
\* dictionary 'success' is True exactly when failed = 0.
C17_ItemFailuresNeverFailBatch ==
    /\ progress.status # FAILED
    /\ (pc = "done") =>
          /\ ret.progress.status # FAILED
          /\ ret.success = (ret.progress.failed = 0)
    /\ (ReturnedUncancelled /\ ~loaded.tried /\ items >= 1
          /\ failing = 0 .. (items - 1)) =>
          /\ ret.progress.failed = items
          /\ ret.progress.success = 0
          /\ ret.progress.status = COMPLETED
          /\ ret.success = FALSE

\* Both of two items raised and the call returned.
C17_Witness ==
    /\ ReturnedUncancelled /\ ~loaded.tried
    /\ items = 2
    /\ failing = {0, 1}
    /\ ret.progress.failed = 2
    /\ ret.progress.status = COMPLETED
    /\ ~ret.success

\* C18 as stated: on a processor constructed with memory_limit_mb = 0 the
\* memory check never clears the event and never holds a completion back.
C18_ZeroLimitDisablesThrottling ==
    pause_event /\ pc # "poll"

\* C18 amended: a processor constructed with memory_limit_mb = 0 (or without
\* the argument) has the limit BATCH_MEMORY_LIMIT_MB; the memory check holds a
\* completion back only where psutil is installed, with the event clear, and
\* only while the last reading is above 0.8 * BATCH_MEMORY_LIMIT_MB.
C18_ZeroLimitIsDefaultLimit ==
    /\ memory_limit_mb = BATCH_MEMORY_LIMIT_MB
    /\ (pc = "poll") =>
          /\ has_psutil
          /\ ~pause_event
          /\ memory_mb * 10 > BATCH_MEMORY_LIMIT_MB * 8

\* A reading above BATCH_MEMORY_LIMIT_MB holds the first completion of a
\* processor constructed with memory_limit_mb = 0.
C18_Witness ==
    /\ pc = "poll"
    /\ memory_limit_mb = BATCH_MEMORY_LIMIT_MB
    /\ memory_mb > BATCH_MEMORY_LIMIT_MB
    /\ progress.completed = 0
    /\ Finished # {}

\* C19: at every instant at most max_workers invocations of process_func are
\* in progress and no item is invoked twice; with max_workers = 1 an item is
\* invoked only when every submitted item before it in the input has
\* finished, and an uncancelled fresh call still folds one completion for
\* each item.
C19_AtMostMaxWorkers ==
    /\ Cardinality(Running) <= max_workers
    /\ \A i \in Indices : calls[i] <= 1
    /\ (max_workers = 1) =>
          /\ \A i, j \in Submitted :
                 (i < j /\ task[j] # "queued") => task[i] \in {"ok", "err"}
          /\ (ReturnedUncancelled /\ ~loaded.tried) =>
                 /\ ret.progress.completed = items
                 /\ \A i \in 0 .. (items - 1) : calls[i] = 1

\* One worker: item 0 has finished, item 1 is being processed.
C19_Witness ==
    /\ max_workers = 1
    /\ items = 2
    /\ task[0] \in {"ok", "err"}
    /\ task[1] = "running"

\* C20: a call during which pause() was called, where every pause() is
\* followed by a resume() and nobody cancels, returns with status COMPLETED,
\* completed = total, and every item either in the results or counted failed.
C20_PausedRunCompletes ==
    (pauseHeld /\ pc \notin {"idle", "done"}) ~>
        (/\ pc = "done"
         /\ ret.progress.status = COMPLETED
         /\ ret.progress.completed = ret.progress.total
         /\ ret.progress.completed = items
         /\ Len(ret.results) + ret.progress.failed = items)

\* C21: when process_batch has returned (completed or cancelled) and its
\* final save succeeded, the progress file holds exactly the returned
\* BatchProgress, terminal status and end_time included, and _load_progress
\* of a new processor yields the returned total and completed.
C21_FinalCheckpointIsReturnedState ==
    (pc = "done" /\ finalSaved) =>
        /\ file.exists /\ file.valid
        /\ file.data = ret.progress
        /\ ret.progress.status \in {COMPLETED, CANCELLED}
        /\ ret.progress.end_time # 0
        /\ LoadProgress.total = ret.progress.total
        /\ LoadProgress.completed = ret.progress.completed

\* A cancelled call of two items with one failed item folded has returned and
\* its final save succeeded.
C21_Witness ==
    /\ pc = "done" /\ finalSaved
    /\ items = 2
    /\ ret.progress.status = CANCELLED
    /\ ret.progress.completed = 1
    /\ Len(ret.progress.failed_items) = 1
    /\ file.data = ret.progress

\* C22: the callbacks of a ShutdownHandler are invoked at most once each and
\* in reverse order of registration, and when the process has exited every
\* callback registered before the first trigger (signal, atexit hook or
\* shutdown()) has been invoked.
C22_CleanupExactlyOnceLIFO ==
    /\ \A a, b \in 1 .. Len(sh_invoked) : a < b => sh_invoked[a] > sh_invoked[b]
    /\ (sh_phase = "exited") =>
          \A c \in 1 .. sh_first : c \in Range(sh_invoked)

\* C23: of the FileLock instances (shared = False) on one path, at most one
\* has is_locked set at any time, and an instance whose acquire() is still
\* trying, or has returned False, has is_locked unset.
C23_AtMostOneHolder ==
    /\ Cardinality({ l \in Locks : fl_locked[l] }) <= 1
    /\ \A l \in Locks : fl_locked[l] => (fl_holder[fl_fd[l]] = l)

\* C24: once cancel() has been called during a call, the loop folds at most
\* one more completion: from a state of the call where _cancelled is set and
\* completed is n, completed never exceeds n + 1, so completed, success,
\* failed and failed_items are final after that one fold.
C24_CancelStopsFolding ==
    \A n \in 0 .. MaxItems :
        [](  (cancelled /\ pc \notin {"idle", "done"} /\ progress.completed = n)
             => [](progress.completed <= n + 1) )

\* The coordinator is between the fold of one completion (its checkpoint
\* included) and the fold of the next.
BetweenCompletions == pc \in {"next", "chk_cancel", "wait", "mem", "poll", "fold"}

\* C25: while no save has failed and the coordinator is between completions,
\* a value of completed that this call made a multiple of checkpoint_interval
\* is in the progress file together with the rest of the current progress,
\* and once the call has written the file the completed of the file is at
\* most completed and less than checkpoint_interval behind it.
C25_CheckpointLag ==
    (BetweenCompletions /\ ~saveFailed) =>
        /\ (FoldsThisCall > 0 /\ progress.completed % checkpoint_interval = 0) =>
              (file.exists /\ file.valid /\ file.data = progress)
        /\ file.exists =>
              /\ file.valid
              /\ 0 <= progress.completed - file.data.completed
              /\ progress.completed - file.data.completed < checkpoint_interval

\* checkpoint_interval = 2: the checkpoint of completed = 2 is in the file and
\* a third completion has been folded since.
C25_Witness ==
    /\ BetweenCompletions /\ ~saveFailed
    /\ checkpoint_interval = 2
    /\ progress.completed = 3
    /\ file.valid /\ file.data.completed = 2

\* C26: with max_workers >= 2, when a call with resume = True has returned
\* after the process died in the call before it, every item's process_func
\* ran to its end in one of the two calls: each item was run by the resumed
\* call, or was skipped as counted by the loaded checkpoint and had finished
\* when the process died.
C26_ResumeRunsEveryItem ==
    (pc = "done" /\ resume /\ interrupted.was /\ max_workers >= 2) =>
        \A i \in 0 .. (items - 1) :
            \/ calls[i] >= 1
            \/ loaded.ok /\ i < loaded.data.completed /\ i \notin interrupted.lost

\* C27: a call that is paused (pause() with no resume() after it) and then
\* cancelled, or cancelled and then paused, returns with status CANCELLED
\* although nobody calls resume().
C27_CancelWhilePausedReturns ==
    (pauseHeld /\ cancelled /\ pc \notin {"idle", "init", "reset", "done"}) ~>
        (pc = "done" /\ ret.progress.status = CANCELLED)

\* C28: a pause() called while the memory check holds the loop keeps the gate
\* closed until the caller calls resume(): while the caller's pause is in
\* effect the event is clear, whatever the memory check does.
C28_CallerPauseOutlivesBackpressure == pauseHeld => ~pause_event

\* C29: after a call with resume = False that the process died in, a call
\* with resume = True does not load the progress an earlier batch wrote.
C29_ResumeNeverLoadsEarlierBatch ==
    (resume /\ interrupted.was /\ loaded.ok) =>
        loaded.data.start_time # EarlierCheckpoint(items).data.start_time

\* C30: line 187 clears the flag in every call.  A call during which nobody
\* calls cancel() runs with the flag clear from line 187 on, whatever was
\* requested before it began and however the call before it ended: it does
\* not return CANCELLED, and with resume = False it runs every item once and
\* returns COMPLETED with completed = total.
C30_FlagClearedEveryRun ==
    /\ (run = MaxRuns /\ pc \notin {"idle", "init", "reset", "done"}) => ~cancelled
    /\ (run = MaxRuns /\ pc = "done") =>
          /\ ret.progress.status # CANCELLED
          /\ ~resume =>
                /\ ret.progress.status = COMPLETED
                /\ ret.progress.total = items
                /\ ret.progress.completed = items
                /\ \A i \in 0 .. (items - 1) : calls[i] = 1

\* The call before this one, on the same processor, was cancelled (its final
\* save is still in the file, the saves of this call having failed), and
\* this call has run both items and returned COMPLETED.
C30_Witness ==
    /\ run = MaxRuns /\ pc = "done" /\ ~resume /\ ~interrupted.was
    /\ file.valid /\ file.data.status = CANCELLED
    /\ items = 2
    /\ ret.progress.status = COMPLETED
    /\ ret.progress.completed = 2

====
